---- MODULE Spec2Model ----
(***************************************************************************)
(* Model of streamlit_pelaporan_sederhana_app.py: the SQLite table         *)
(* `reports`, the uploads directory, and the handlers of the pages "Buat   *)
(* Laporan" and "Daftar Laporan", run by concurrent browser sessions.       *)
(*                                                                         *)
(* Text is a sequence of characters, so that str.strip() and               *)
(* str.replace(' ', '_') are computed.  Python's None is NoText in a text   *)
(* column and NONE in a column holding one of a list of words.             *)
(***************************************************************************)
EXTENDS Integers, Sequences, FiniteSets, TLC

\* ------------------------------------------------------------ bounds
\* The table holds at most MaxReports rows in the model.
MaxReports == 2
\* datetime.now() returns one of the seconds 1..MaxTime.
MaxTime == 2

\* ------------------------------------------------------------ values
\* None in a column of words, None in a column of text, a missing id cell
\* of a data frame (ids are positive), no connection.
NONE == "None"
NoText == <<"None">>
NaN == -1
NoSession == "none"

SPACE == " "
UPLOAD_DIR == <<"u", "p", "l", "o", "a", "d", "s">>

\* The options of the status column (lines 270 and 293), and those of the
\* kategori and prioritas widgets that the forms of the model use.
StatusOptions == {"Baru", "Diproses", "Selesai"}
KategoriOptions == {"Umum", "Teknis"}
PrioritasOptions == {"Sedang", "Tinggi"}

Times == 1..MaxTime

Columns ==
    {"id", "created_at", "pelapor_nama", "pelapor_email", "judul", "kategori",
     "prioritas", "deskripsi", "status", "lampiran_path"}

\* ------------------------------------------------------------ text
\* str.strip(): leading and trailing whitespace removed.
RECURSIVE strip(_)
strip(s) ==
    IF s = <<>> THEN <<>>
    ELSE IF Head(s) = SPACE THEN strip(Tail(s))
    ELSE IF s[Len(s)] = SPACE THEN strip(SubSeq(s, 1, Len(s) - 1))
    ELSE s

\* str.replace(' ', '_')
replace_spaces(s) == [i \in 1..Len(s) |-> IF s[i] = SPACE THEN "_" ELSE s[i]]

\* Python's `x or None` on a string: the empty string is falsy.
OrNone(s) == IF s = <<>> THEN NoText ELSE s

\* dict.get(key, default)
Get(row, key, default) == IF key \in DOMAIN row THEN row[key] ELSE default

\* ------------------------------------------------------------ save_upload
\* The path save_upload builds: UPLOAD_DIR / "<timestamp>_<name with _ for space>".
upload_path(upload, now) == UPLOAD_DIR \o <<"/", now, "_">> \o replace_spaces(upload)

save_upload_nowrite(dir, upload, now) ==
    IF upload = NoText THEN [path |-> NoText, files |-> dir]
    ELSE [path |-> upload_path(upload, now), files |-> dir]

\* save_upload(upload): the path returned and the uploads directory afterwards.
save_upload(dir, upload, now) ==
    IF upload = NoText THEN [path |-> NoText, files |-> dir]
    ELSE [path |-> upload_path(upload, now),
          files |-> dir \cup {upload_path(upload, now)}]

\* ------------------------------------------------------------ the table
\* The row the INSERT of insert_report stores: its nine parameters.
NewRow(id, row, now) ==
    [id |-> id,
     created_at |-> now,
     pelapor_nama |-> Get(row, "pelapor_nama", NoText),
     pelapor_email |-> Get(row, "pelapor_email", NoText),
     judul |-> row["judul"],
     kategori |-> Get(row, "kategori", NONE),
     prioritas |-> Get(row, "prioritas", NONE),
     deskripsi |-> Get(row, "deskripsi", NoText),
     status |-> Get(row, "status", "Baru"),
     lampiran_path |-> Get(row, "lampiran_path", NoText)]

insert_report_always_baru(tbl, autoinc, row, now) ==
    IF "judul" \notin DOMAIN row
    THEN [result |-> "KeyError", reports |-> tbl, seq |-> autoinc]
    ELSE IF row["judul"] = NoText
    THEN [result |-> "IntegrityError", reports |-> tbl, seq |-> autoinc]
    ELSE [result |-> "ok",
          reports |-> tbl \cup {[NewRow(autoinc + 1, row, now) EXCEPT !.status = "Baru"]},
          seq |-> autoinc + 1]

\* insert_report(row): the outcome, the table and sqlite_sequence afterwards.
\* row["judul"] raises KeyError before the statement runs; a None title breaks
\* NOT NULL and the `with` block rolls back.  AUTOINCREMENT takes the id after
\* the largest one ever used.
insert_report(tbl, autoinc, row, now) ==
    IF "judul" \notin DOMAIN row
    THEN [result |-> "KeyError", reports |-> tbl, seq |-> autoinc]
    ELSE IF row["judul"] = NoText
    THEN [result |-> "IntegrityError", reports |-> tbl, seq |-> autoinc]
    ELSE [result |-> "ok",
          reports |-> tbl \cup {NewRow(autoinc + 1, row, now)},
          seq |-> autoinc + 1]

UpdateStmtAll(tbl, status, id) == {[r EXCEPT !.status = status] : r \in tbl}

\* UPDATE reports SET status=? WHERE id=?  (no row matches: nothing changes,
\* no error).
UpdateStmt(tbl, status, id) ==
    {IF r.id = id THEN [r EXCEPT !.status = status] ELSE r : r \in tbl}

\* The loop of update_status_bulk over the first n rows of the data frame.
RECURSIVE UpdateLoop(_, _, _)
UpdateLoop(tbl, batch, n) ==
    IF n = 0 THEN tbl
    ELSE UpdateStmt(UpdateLoop(tbl, batch, n - 1), batch[n].status, batch[n].id)

\* update_status_bulk(updated_df): int(r["id"]) raises on a missing id cell
\* and the `with` block rolls the transaction back; otherwise every UPDATE
\* runs and the transaction commits.
update_status_bulk(tbl, batch) ==
    IF \E i \in 1..Len(batch) : batch[i].id = NaN
    THEN [result |-> "ValueError", reports |-> tbl]
    ELSE [result |-> "ok", reports |-> UpdateLoop(tbl, batch, Len(batch))]

\* load_reports(): SELECT ... ORDER BY id DESC.
RECURSIVE OrderByIdDesc(_)
OrderByIdDesc(tbl) ==
    IF tbl = {} THEN <<>>
    ELSE LET top == CHOOSE r \in tbl : \A q \in tbl : q.id <= r.id
         IN  <<top>> \o OrderByIdDesc(tbl \ {top})

RECURSIVE OrderByIdAsc(_)
OrderByIdAsc(tbl) ==
    IF tbl = {} THEN <<>>
    ELSE LET low == CHOOSE r \in tbl : \A q \in tbl : r.id <= q.id
         IN  <<low>> \o OrderByIdAsc(tbl \ {low})

load_reports_asc(tbl) == OrderByIdAsc(tbl)

load_reports(tbl) == OrderByIdDesc(tbl)

\* ------------------------------------------------------------ the pages
\* Line 237: `if not judul.strip()`.
TitleMissingNoStrip(judul) == judul = <<>>

TitleMissing(judul) == strip(judul) = <<>>

\* The dictionary the submit handler hands to insert_report (lines 242-251).
FormRow(form, lampiran_path) ==
    [pelapor_nama |-> OrNone(strip(form.pelapor_nama)),
     pelapor_email |-> OrNone(strip(form.pelapor_email)),
     judul |-> strip(form.judul),
     kategori |-> form.kategori,
     prioritas |-> form.prioritas,
     deskripsi |-> OrNone(strip(form.deskripsi)),
     status |-> "Baru",
     lampiran_path |-> lampiran_path]

\* Series.isin(values) as a row mask.
IsIn(value, values) == value \in values

FilterReportsAny(df, f_kategori, f_prioritas, f_status) ==
    SelectSeq(df, LAMBDA r :
        \/ (f_kategori # {} /\ IsIn(r.kategori, f_kategori))
        \/ (f_prioritas # {} /\ IsIn(r.prioritas, f_prioritas))
        \/ (f_status # {} /\ IsIn(r.status, f_status))
        \/ (f_kategori = {} /\ f_prioritas = {} /\ f_status = {}))

\* Lines 272-278: dff = df.copy(), then one mask after the other, each only
\* when its multiselect is not empty.
FilterReports(df, f_kategori, f_prioritas, f_status) ==
    LET dff0 == df
        dff1 == IF f_kategori # {}
                THEN SelectSeq(dff0, LAMBDA r : IsIn(r.kategori, f_kategori))
                ELSE dff0
        dff2 == IF f_prioritas # {}
                THEN SelectSeq(dff1, LAMBDA r : IsIn(r.prioritas, f_prioritas))
                ELSE dff1
        dff3 == IF f_status # {}
                THEN SelectSeq(dff2, LAMBDA r : IsIn(r.status, f_status))
                ELSE dff2
    IN  dff3

\* Line 281: the six columns shown in the editor.
Editable(dff) ==
    [i \in 1..Len(dff) |->
        [id |-> dff[i].id, created_at |-> dff[i].created_at, judul |-> dff[i].judul,
         kategori |-> dff[i].kategori, prioritas |-> dff[i].prioritas,
         status |-> dff[i].status]]

\* st.data_editor: every column but status is disabled; the status cells hold
\* what the user chose.
DataEditor(editable, choice) ==
    [i \in 1..Len(editable) |-> [editable[i] EXCEPT !.status = choice[i]]]

\* The options of the two data-driven multiselects (lines 266 and 268):
\* the values present in the column, None dropped.
Present(df, column) == {df[i][column] : i \in 1..Len(df)} \ {NONE}

\* ------------------------------------------------------------ state
VARIABLES
    reports,      \* the committed rows of table reports
    seq,          \* sqlite_sequence: the largest id ever assigned
    files,        \* the paths written under UPLOAD_DIR
    lock,         \* the session whose connection holds SQLite's write lock
    work,         \* the table as the open write transaction sees it
    pc,           \* per session: where its script run stands
    local,        \* per session: the submit handler's form and lampiran_path
    edited,       \* per session: the data frame given to update_status_bulk
    idx,          \* per session: rows of edited the UPDATE loop has done
    msg,          \* per session: the message the last handler showed
    inserted,     \* history: the ids in the order their rows were inserted
    call          \* the last direct call of a store function and its outcome

vars ==
    <<reports, seq, files, lock, work, pc, local, edited, idx, msg, inserted, call>>

store == <<reports, seq, files>>
session == <<lock, work, pc, local, edited, idx, msg>>

Ids(tbl) == {r.id : r \in tbl}

Sessions == {"s1", "s2"}

MSG_TITLE == "Judul wajib diisi."
MSG_SENT == "Laporan berhasil dikirim!"
MSG_SAVED == "Status laporan berhasil diperbarui."
MSG_FAILED == "Gagal menyimpan"

\* The submit handler's variables outside a run of it.
NoForm == [judul |-> NoText]
NoLocal == [form |-> NoForm, lampiran_path |-> NoText]

\* init_db() on a fresh reports.db, and no script run under way.
Init ==
    /\ reports = {}
    /\ seq = 0
    /\ files = {}
    /\ lock = NoSession
    /\ work = {}
    /\ pc = [s \in Sessions |-> "idle"]
    /\ local = [s \in Sessions |-> NoLocal]
    /\ edited = [s \in Sessions |-> <<>>]
    /\ idx = [s \in Sessions |-> 0]
    /\ msg = [s \in Sessions |-> NONE]
    /\ inserted = <<>>
    /\ call = [op |-> "init_db"]

\* ------------------------------------------------------------ direct calls
\* Row dictionaries a caller may hand to insert_report: without optional keys,
\* with all of them and a status, with a None status, without a title, with
\* a None title.
SomePath == upload_path(<<"f">>, 1)

RowInputs ==
    {[judul |-> <<"a">>],
     [judul |-> <<"b">>, pelapor_nama |-> <<"n">>, pelapor_email |-> <<"e">>,
      kategori |-> "Teknis", prioritas |-> "Tinggi", deskripsi |-> <<"d">>,
      status |-> "Selesai", lampiran_path |-> SomePath],
     [judul |-> <<"a">>, kategori |-> "Umum", status |-> NONE],
     [kategori |-> "Umum"],
     [judul |-> NoText]}

\* Rows of a data frame a caller may hand to update_status_bulk, and the data
\* frames of zero, one or two of them.
BatchEntries ==
    [id : {1, 2}, status : {"Diproses", "Ditolak"}] \cup {[id |-> NaN, status |-> "Diproses"]}

Batches ==
    {<<>>} \cup {<<e>> : e \in BatchEntries}
           \cup {<<e1, e2>> : e1 \in BatchEntries, e2 \in BatchEntries}

CallInsert(row, now) ==
    LET out == insert_report(reports, seq, row, now) IN
    /\ Cardinality(reports) < MaxReports
    /\ reports' = out.reports
    /\ seq' = out.seq
    /\ inserted' = IF out.result = "ok" THEN Append(inserted, out.seq) ELSE inserted
    /\ call' = [op |-> "insert_report", row |-> row, result |-> out.result]
    /\ UNCHANGED <<files, session>>

CallUpdate(batch) ==
    LET out == update_status_bulk(reports, batch) IN
    /\ reports' = out.reports
    /\ call' = [op |-> "update_status_bulk", batch |-> batch, result |-> out.result]
    /\ UNCHANGED <<seq, files, inserted, session>>

StoreNext ==
    \/ \E row \in RowInputs, now \in Times : CallInsert(row, now)
    \/ \E batch \in Batches : CallUpdate(batch)

StoreSpec == Init /\ [][StoreNext]_vars

\* ------------------------------------------------------------ page handlers
\* What a user may put into form_laporan: the widgets' texts and the file's
\* name (NoText: no file chosen).
BlankForm ==
    [pelapor_nama |-> <<>>, pelapor_email |-> <<>>, judul |-> <<>>,
     kategori |-> "Umum", prioritas |-> "Sedang", deskripsi |-> <<>>,
     lampiran |-> NoText]

FormInputs ==
    {BlankForm,
     [BlankForm EXCEPT !.judul = <<SPACE, SPACE>>, !.lampiran = <<"f">>],
     [BlankForm EXCEPT !.judul = <<"a">>],
     [BlankForm EXCEPT !.judul = <<SPACE, "b", SPACE>>, !.pelapor_nama = <<"n", SPACE>>,
                       !.pelapor_email = <<"e">>, !.kategori = "Teknis",
                       !.prioritas = "Tinggi", !.deskripsi = <<SPACE>>,
                       !.lampiran = <<"f", SPACE, "g">>],
     [BlankForm EXCEPT !.judul = <<"c">>, !.kategori = "Teknis"]}

\* Script runs that have saved their upload and not yet inserted their row.
Inserting == {t \in Sessions : pc[t] = "insert"}

\* "Kirim Laporan" (lines 236-240): the title check, then save_upload.
SubmitForm(s, form, now) ==
    /\ pc[s] = "idle"
    /\ IF TitleMissing(form.judul)
       THEN /\ msg' = [msg EXCEPT ![s] = MSG_TITLE]
            /\ local' = [local EXCEPT ![s] = [form |-> form, lampiran_path |-> NoText]]
            /\ UNCHANGED <<files, pc>>
       ELSE LET up == save_upload(files, form.lampiran, now) IN
            /\ Cardinality(reports) + Cardinality(Inserting) < MaxReports
            /\ files' = up.files
            /\ local' = [local EXCEPT ![s] = [form |-> form, lampiran_path |-> up.path]]
            /\ pc' = [pc EXCEPT ![s] = "insert"]
            /\ msg' = [msg EXCEPT ![s] = NONE]
    /\ UNCHANGED <<reports, seq, lock, work, edited, idx, inserted, call>>

\* Lines 241-253: insert_report, which waits for the write lock, then the
\* success message.
InsertStep(s, now) ==
    LET out == insert_report(reports, seq, FormRow(local[s].form, local[s].lampiran_path), now) IN
    /\ pc[s] = "insert"
    /\ lock = NoSession
    /\ reports' = out.reports
    /\ seq' = out.seq
    /\ inserted' = IF out.result = "ok" THEN Append(inserted, out.seq) ELSE inserted
    /\ msg' = [msg EXCEPT ![s] = IF out.result = "ok" THEN MSG_SENT ELSE out.result]
    /\ pc' = [pc EXCEPT ![s] = "idle"]
    /\ local' = [local EXCEPT ![s] = NoLocal]
    /\ UNCHANGED <<files, lock, work, edited, idx, call>>

\* "Simpan Perubahan Status" (lines 260-302): the script run loads the table,
\* filters it, lets data_editor put the user's choices into the status column
\* and enters update_status_bulk.
ClickSave(s, f_kategori, f_prioritas, f_status) ==
    LET df == load_reports(reports)
        dff == FilterReports(df, f_kategori, f_prioritas, f_status)
    IN  /\ pc[s] = "idle"
        /\ f_kategori \subseteq Present(df, "kategori")
        /\ f_prioritas \subseteq Present(df, "prioritas")
        /\ f_status \subseteq StatusOptions
        /\ \E choice \in [1..Len(dff) -> StatusOptions] :
               edited' = [edited EXCEPT ![s] = DataEditor(Editable(dff), choice)]
        /\ idx' = [idx EXCEPT ![s] = 0]
        /\ pc' = [pc EXCEPT ![s] = "update"]
        /\ msg' = [msg EXCEPT ![s] = NONE]
        /\ UNCHANGED <<store, lock, work, local, inserted, call>>

UpdateStepAutocommit(s) ==
    LET r == edited[s][idx[s] + 1] IN
    /\ pc[s] = "update"
    /\ idx[s] < Len(edited[s])
    /\ reports' = UpdateStmt(reports, r.status, r.id)
    /\ idx' = [idx EXCEPT ![s] = idx[s] + 1]
    /\ UNCHANGED <<seq, files, lock, work, pc, local, edited, msg, inserted, call>>

\* One round of the loop of update_status_bulk (lines 91-95).  The first
\* UPDATE opens the connection's transaction and takes the write lock, for
\* which it waits while another connection holds it (a transaction is a few
\* statements long: sqlite3's busy timeout is taken not to run out); the rows
\* it writes stay in the transaction until the commit.  A missing id cell makes int() raise:
\* the `with` block rolls back and the handler shows the error (line 305).
UpdateStep(s) ==
    LET r == edited[s][idx[s] + 1] IN
    /\ pc[s] = "update"
    /\ idx[s] < Len(edited[s])
    /\ IF r.id = NaN
       THEN /\ lock' = IF lock = s THEN NoSession ELSE lock
            /\ work' = IF lock = s THEN {} ELSE work
            /\ pc' = [pc EXCEPT ![s] = "idle"]
            /\ idx' = [idx EXCEPT ![s] = 0]
            /\ edited' = [edited EXCEPT ![s] = <<>>]
            /\ msg' = [msg EXCEPT ![s] = MSG_FAILED]
       ELSE /\ lock \in {NoSession, s}
            /\ work' = UpdateStmt(IF lock = s THEN work ELSE reports, r.status, r.id)
            /\ lock' = s
            /\ idx' = [idx EXCEPT ![s] = idx[s] + 1]
            /\ UNCHANGED <<pc, edited, msg>>
    /\ UNCHANGED <<store, local, inserted, call>>

\* conn.commit() (line 96) and the success message (line 303).
CommitStep(s) ==
    /\ pc[s] = "update"
    /\ idx[s] = Len(edited[s])
    /\ reports' = IF lock = s THEN work ELSE reports
    /\ lock' = IF lock = s THEN NoSession ELSE lock
    /\ work' = IF lock = s THEN {} ELSE work
    /\ msg' = [msg EXCEPT ![s] = MSG_SAVED]
    /\ pc' = [pc EXCEPT ![s] = "idle"]
    /\ edited' = [edited EXCEPT ![s] = <<>>]
    /\ idx' = [idx EXCEPT ![s] = 0]
    /\ UNCHANGED <<seq, files, local, inserted, call>>

\* Every handler, every session, every input.
Next ==
    \/ \E s \in Sessions, form \in FormInputs, now \in Times : SubmitForm(s, form, now)
    \/ \E s \in Sessions, now \in Times : InsertStep(s, now)
    \/ \E s \in Sessions, fk \in SUBSET KategoriOptions, fp \in SUBSET PrioritasOptions,
          fs \in SUBSET StatusOptions : ClickSave(s, fk, fp, fs)
    \/ \E s \in Sessions : UpdateStep(s)
    \/ \E s \in Sessions : CommitStep(s)

Spec == Init /\ [][Next]_vars

\* Page "Buat Laporan" alone, used by both sessions.
SubmitNext ==
    \/ \E s \in Sessions, form \in FormInputs, now \in Times : SubmitForm(s, form, now)
    \/ \E s \in Sessions, now \in Times : InsertStep(s, now)

SubmitSpec == Init /\ [][SubmitNext]_vars

\* One session that submits reports without a file and uses page "Daftar
\* Laporan"; the clock stands still.
NoFileForms ==
    {[f EXCEPT !.lampiran = NoText] : f \in {g \in FormInputs : ~TitleMissing(g.judul)}}

ListNext ==
    \/ \E form \in NoFileForms : SubmitForm("s1", form, 1)
    \/ InsertStep("s1", 1)
    \/ \E fk \in SUBSET KategoriOptions, fp \in SUBSET PrioritasOptions,
          fs \in SUBSET StatusOptions : ClickSave("s1", fk, fp, fs)
    \/ UpdateStep("s1")
    \/ CommitStep("s1")

ListSpec == Init /\ [][ListNext]_vars

\* Two sessions that save statuses at the same time; every report is the
\* same form, the clock stands still, only the status filter is used.
ConcNext ==
    \/ \E s \in Sessions : SubmitForm(s, [BlankForm EXCEPT !.judul = <<"a">>], 1)
    \/ \E s \in Sessions : InsertStep(s, 1)
    \/ \E s \in Sessions, fs \in SUBSET StatusOptions : ClickSave(s, {}, {}, fs)
    \/ \E s \in Sessions : UpdateStep(s)
    \/ \E s \in Sessions : CommitStep(s)

ConcSpec == Init /\ [][ConcNext]_vars

\* ------------------------------------------------------------ properties
\* A step that is a direct call of update_status_bulk / insert_report.
IsCallUpdate == call'.op = "update_status_bulk"
IsCallInsert == call'.op = "insert_report"

\* The data frame has a row whose id is an integer no report has.
TargetsMissingId(batch, tbl) ==
    \E i \in 1..Len(batch) : batch[i].id # NaN /\ batch[i].id \notin Ids(tbl)

\* C1: the bulk status update is all-or-nothing: when a row of the data frame
\* names an id that no report has, the call leaves every report's status as
\* it was.
C1_BatchAtomic ==
    [][(IsCallUpdate /\ TargetsMissingId(call'.batch, reports)) => reports' = reports]_vars

\* C2: a status update that names an id no report has ends in NotFoundError,
\* never in success, and leaves the table unchanged.
C2_MissingIdNotFound ==
    [][(IsCallUpdate /\ TargetsMissingId(call'.batch, reports))
         => (call'.result = "NotFoundError" /\ reports' = reports)]_vars

\* The call carries a status that is none of the three options.
CarriesOtherStatus(c) ==
    \/ /\ c.op = "insert_report"
       /\ "status" \in DOMAIN c.row
       /\ c.row["status"] \notin StatusOptions
    \/ /\ c.op = "update_status_bulk"
       /\ \E i \in 1..Len(c.batch) : c.batch[i].status \notin StatusOptions

\* C3: every stored status is Baru, Diproses or Selesai, and a call that
\* carries another status ends in ValidationError.
C3_StatusEnumerated ==
    /\ \A r \in reports : r.status \in StatusOptions
    /\ CarriesOtherStatus(call) => call.result = "ValidationError"

\* The rows a step adds to the table.
Added == reports' \ reports

\* C5 as stated: a successful insert adds exactly one row, its id above every
\* id inserted before, its status Baru whatever keys the row dictionary has.
C5_InsertAlwaysBaru ==
    [][(IsCallInsert /\ call'.result = "ok" /\ seq' # seq) =>
          /\ Cardinality(Added) = 1
          /\ reports \subseteq reports'
          /\ \A r \in Added :
                /\ \A i \in 1..Len(inserted) : r.id > inserted[i]
                /\ r.status = "Baru"]_vars

\* C5 as amended: a successful insert adds exactly one row, its id above
\* every id inserted before, its status the row dictionary's status when it
\* has that key and Baru when it has not.
C5_InsertStatusFromRow ==
    [][(IsCallInsert /\ call'.result = "ok" /\ seq' # seq) =>
          /\ Cardinality(Added) = 1
          /\ reports \subseteq reports'
          /\ \A r \in Added :
                /\ \A i \in 1..Len(inserted) : r.id > inserted[i]
                /\ \A q \in reports : r.id > q.id
                /\ r.status = IF "status" \in DOMAIN call'.row
                              THEN call'.row["status"] ELSE "Baru"]_vars

\* Two inserts succeeded, the later one with all the optional keys and a
\* status of its own, the earlier one with none.
C5_Witness ==
    /\ call.op = "insert_report"
    /\ call.result = "ok"
    /\ DOMAIN call.row = Columns \ {"id", "created_at"}
    /\ \E r \in reports, q \in reports :
          /\ r.id = 2 /\ r.status = "Selesai" /\ r.lampiran_path # NoText
          /\ q.id = 1 /\ q.status = "Baru" /\ q.pelapor_nama = NoText

\* Every column but status.
Frozen(r) == [c \in Columns \ {"status"} |-> r[c]]

\* C6: a stored report is never removed and keeps every column but status;
\* a status changes only in a bulk update whose data frame names the row's
\* id, and a bulk update adds no row.
C6_AppendPlusStatusOnly ==
    [][/\ \A r \in reports : \E q \in reports' :
             /\ Frozen(q) = Frozen(r)
             /\ q.status # r.status =>
                   /\ IsCallUpdate
                   /\ \E i \in 1..Len(call'.batch) : call'.batch[i].id = r.id
       /\ IsCallUpdate => Ids(reports') = Ids(reports)
       /\ Cardinality(reports') = Cardinality(Ids(reports'))]_vars

\* A bulk update changed the status of report 1 and left report 2, which its
\* data frame does not name, as it was inserted.
C6_Witness ==
    /\ call.op = "update_status_bulk"
    /\ call.result = "ok"
    /\ \A i \in 1..Len(call.batch) : call.batch[i].id = 1
    /\ \E r \in reports, q \in reports :
          /\ r.id = 1 /\ r.status = "Ditolak" /\ r.judul = <<"a">>
          /\ q.id = 2 /\ q.status = "Selesai" /\ q.judul = <<"b">>

\* The title is empty or nothing but spaces.
OnlySpaces(judul) == \A i \in 1..Len(judul) : judul[i] = SPACE

\* A step in which session s ran the submit handler's title check: its
\* script run stood idle and the handler's variables or message changed.
SubmittedBy(s) == pc[s] = "idle" /\ (local'[s] # local[s] \/ msg'[s] # msg[s])

\* C4: a submission whose title is empty or only spaces shows the title
\* error, inserts no row and saves no file; no stored title is blank.
C4_BlankTitleRejected ==
    [][/\ \A s \in Sessions :
             (SubmittedBy(s) /\ OnlySpaces(local'[s].form.judul)) =>
                 /\ msg'[s] = MSG_TITLE
                 /\ pc'[s] = "idle"
                 /\ reports' = reports
                 /\ seq' = seq
                 /\ files' = files
       /\ \A r \in reports' : ~OnlySpaces(r.judul)]_vars

\* A title of two spaces was submitted together with a file: the error is
\* shown, the table and the uploads directory are empty.
C4_Witness ==
    \E s \in Sessions :
        /\ msg[s] = MSG_TITLE
        /\ local[s].form.judul = <<SPACE, SPACE>>
        /\ local[s].form.lampiran # NoText
        /\ reports = {}
        /\ files = {}

\* C7: the listing holds every stored report once, ids strictly descending,
\* which is the reverse of the order of insertion.
C7_ListingNewestFirst ==
    LET df == load_reports(reports) IN
    /\ Len(df) = Cardinality(reports)
    /\ {df[i] : i \in 1..Len(df)} = reports
    /\ \A i \in 1..Len(df), j \in 1..Len(df) : i < j => df[i].id > df[j].id
    /\ Len(df) = Len(inserted)
    /\ \A i \in 1..Len(df) : df[i].id = inserted[Len(inserted) + 1 - i]

\* Two reports are stored and a save has changed the first one's status.
C7_Witness ==
    /\ Cardinality(reports) = MaxReports
    /\ msg["s1"] = MSG_SAVED
    /\ \E r \in reports : r.id = 1 /\ r.status = "Selesai"
    /\ \E r \in reports : r.id = MaxReports /\ r.status = "Baru"

\* The rows of df that pass every multiselect that is not empty.
Passes(r, f_kategori, f_prioritas, f_status) ==
    /\ (f_kategori = {} \/ r.kategori \in f_kategori)
    /\ (f_prioritas = {} \/ r.prioritas \in f_prioritas)
    /\ (f_status = {} \/ r.status \in f_status)

\* C8: for every choice of the three multiselects the filtered frame is the
\* listing restricted to the rows that pass all three, in the listing's order.
C8_FilterConjunctive ==
    LET df == load_reports(reports) IN
    \A fk \in SUBSET KategoriOptions, fp \in SUBSET PrioritasOptions,
       fs \in SUBSET StatusOptions :
        FilterReports(df, fk, fp, fs) =
            SelectSeq(df, LAMBDA r : Passes(r, fk, fp, fs))

\* Both stored reports are Teknis, one of them Sedang: the save under way
\* was clicked with filters that left only that one in the editor.
C8_Witness ==
    LET df == load_reports(reports) IN
    /\ Len(df) = 2
    /\ \A i \in 1..Len(df) : df[i].kategori = "Teknis"
    /\ Len(FilterReports(df, {"Teknis"}, {}, {})) = 2
    /\ Len(FilterReports(df, {"Teknis"}, {"Sedang"}, {})) = 1
    /\ pc["s1"] = "update"
    /\ Len(edited["s1"]) = 1
    /\ edited["s1"][1].prioritas = "Sedang"

\* A step in which session s finished its run of update_status_bulk.
SaveEndedBy(s) == pc[s] = "update" /\ pc'[s] = "idle"

\* Some report's status differs between the two tables.
StatusChanged(old, new) ==
    \E r \in old, q \in new : q.id = r.id /\ q.status # r.status

\* C9: a save is never rejected; the step that ends it leaves every row of
\* its data frame with the status that frame carries, so of two saves the one
\* that commits last decides; and stored statuses change in no other step, so
\* the UPDATEs of two saves never interleave.
C9_LastCommitWins ==
    [][/\ \A s \in Sessions : SaveEndedBy(s) =>
             /\ msg'[s] = MSG_SAVED
             /\ \A i \in 1..Len(edited[s]) : \A q \in reports' :
                    q.id = edited[s][i].id => q.status = edited[s][i].status
       /\ StatusChanged(reports, reports') => \E s \in Sessions : SaveEndedBy(s)]_vars

\* Both sessions have saved, neither was rejected, and the two reports carry
\* statuses that only a save can have set.
C9_Witness ==
    /\ \A s \in Sessions : msg[s] = MSG_SAVED /\ pc[s] = "idle"
    /\ lock = NoSession
    /\ \E r \in reports, q \in reports :
          r.id = 1 /\ r.status = "Diproses" /\ q.id = 2 /\ q.status = "Selesai"

\* A step in which session s ran insert_report from the submit handler.
InsertedBy(s) == pc[s] = "insert" /\ pc'[s] = "idle"

\* C10: the row a submission inserts carries the path save_upload returned,
\* and when that path is not None the file was in the uploads directory
\* before the insert; a submission without a file writes no file and stores
\* None.
C10_SavedBeforeInserted ==
    [][/\ \A s \in Sessions : InsertedBy(s) =>
             \A r \in Added :
                 /\ r.lampiran_path = local[s].lampiran_path
                 /\ r.lampiran_path # NoText => r.lampiran_path \in files
                 /\ local[s].form.lampiran = NoText => r.lampiran_path = NoText
       /\ \A s \in Sessions :
             (SubmittedBy(s) /\ local'[s].form.lampiran = NoText) =>
                 /\ files' = files
                 /\ local'[s].lampiran_path = NoText
       /\ \A r \in reports' : r.lampiran_path # NoText => r.lampiran_path \in files']_vars

\* A report with the file "f g" and a report without a file are stored; the
\* first one's path, spaces replaced, is the only file written.
C10_Witness ==
    \E t \in Times :
        /\ files = {upload_path(<<"f", SPACE, "g">>, t)}
        /\ \E r \in reports :
              r.lampiran_path = UPLOAD_DIR \o <<"/", t, "_", "f", "_", "g">>
        /\ \E r \in reports : r.lampiran_path = NoText

====
